---- MODULE Spec2Model ----
(***************************************************************************)
(* Model of custom_dispatcher.py: the cache-key derivation of              *)
(* ZFunctionCache._index_key and the ZDispatcher that installs it.         *)
(*                                                                         *)
(* Python objects are modelled by one record shape, so that any two of     *)
(* them can be compared:                                                   *)
(*   tag   "atom" | "tuple" | "list" | "types.Dispatcher" |                *)
(*         "dispatcher.Dispatcher" | "sha256" | "raise"                    *)
(*   kids  the elements of a tuple or list (the bytes of a digest)         *)
(*   mod, qn   py_func.__module__ and py_func.__qualname__ of a function   *)
(*             reference; mod is the text of an atom                       *)
(*   inst  which compiled instance a function reference is                 *)
(*   intro how a function reference exposes py_func: "py_func" (a direct   *)
(*         attribute), "key" (key() returns an object with py_func),       *)
(*         "key_without_py_func" (key() returns an object without one),    *)
(*         "none" (neither py_func nor key)                                *)
(***************************************************************************)
EXTENDS Integers, Sequences, FiniteSets, TLC

VARIABLES cache, py_func, sig, key, cvars, outcome

vars == <<cache, py_func, sig, key, cvars, outcome>>

----------------------------------------------------------------------------
(* Python values *)

Mk(tag, kids, mod, qn, inst, intro) ==
  [tag |-> tag, kids |-> kids, mod |-> mod, qn |-> qn, inst |-> inst, intro |-> intro]

Atom(s) == Mk("atom", <<>>, s, "", 0, "")

Tup(kids) == Mk("tuple", kids, "", "", 0, "")

Lst(kids) == Mk("list", kids, "", "", 0, "")

TypeDispatcher(inst, mod, qn, intro) == Mk("types.Dispatcher", <<>>, mod, qn, inst, intro)

DispatcherObj(inst, mod, qn, intro) == Mk("dispatcher.Dispatcher", <<>>, mod, qn, inst, intro)

Raise == Mk("raise", <<>>, "", "", 0, "")

IsContainer(obj) == obj.tag \in {"tuple", "list"}

\* obj._type of a compiled function: the type descriptor of that instance
TypeOf(obj) == TypeDispatcher(obj.inst, obj.mod, obj.qn, "key")

----------------------------------------------------------------------------
(* The helpers of _index_key *)

\* the scan, were every container taken for a function reference
is_first_class_function_eager(obj) ==
  IsContainer(obj) \/ obj.tag \in {"dispatcher.Dispatcher", "types.Dispatcher"}

RECURSIVE is_first_class_function(_)
is_first_class_function(obj) ==
  IF IsContainer(obj)
    THEN \E i \in 1..Len(obj.kids) : is_first_class_function(obj.kids[i])
    ELSE IF obj.tag = "dispatcher.Dispatcher"
      THEN is_first_class_function(TypeOf(obj))
      ELSE obj.tag = "types.Dispatcher"

\* any(map(_is_first_class_function, iterable))
any_first_class_function(iterable) ==
  \E i \in 1..Len(iterable) : is_first_class_function(iterable[i])

\* the identity, were the qualified name left out
compute_custom_key_module_only(typ) ==
  IF typ.intro \in {"py_func", "key"} THEN Tup(<<Atom(typ.mod)>>) ELSE Raise

\* the identity, were a descriptor without py_func passed through unchanged
compute_custom_key_fallback(typ) ==
  IF typ.intro \in {"py_func", "key"} THEN Tup(<<Atom(typ.mod), Atom(typ.qn)>>) ELSE typ

\* hasattr(typ, "py_func") picks typ.py_func, else typ.key().py_func, which
\* raises when typ has no key() or its result has no py_func
compute_custom_key(typ) ==
  IF typ.intro = "py_func"
    THEN Tup(<<Atom(typ.mod), Atom(typ.qn)>>)
    ELSE IF typ.intro = "key"
      THEN Tup(<<Atom(typ.mod), Atom(typ.qn)>>)
      ELSE Raise

RECURSIVE map_only(_, _)
map_only(types, iterable) ==
  Tup([i \in 1..Len(iterable) |->
         IF iterable[i].tag = types
           THEN compute_custom_key(iterable[i])
           ELSE IF IsContainer(iterable[i])
             THEN map_only(types, iterable[i].kids)
             ELSE iterable[i]])

\* an exception raised inside the comprehension leaves no value behind
RECURSIVE Raised(_)
Raised(obj) ==
  \/ obj.tag = "raise"
  \/ \E i \in 1..Len(obj.kids) : Raised(obj.kids[i])

----------------------------------------------------------------------------
(* Collaborators: serialization, digest, base key *)

\* dumps: a byte stream that tells tuples from lists and one object from another
RECURSIVE dumps(_)
RECURSIVE dumps_all(_)
dumps(obj) ==
  IF obj.tag = "tuple" THEN <<Atom("(")>> \o dumps_all(obj.kids) \o <<Atom(")")>>
  ELSE IF obj.tag = "list" THEN <<Atom("[")>> \o dumps_all(obj.kids) \o <<Atom("]")>>
  ELSE <<obj>>

dumps_all(kids) ==
  IF kids = <<>> THEN <<>> ELSE dumps(Head(kids)) \o dumps_all(Tail(kids))

\* hasher = lambda x: hashlib.sha256(x).hexdigest()
hasher(bytes) == Mk("sha256", bytes, "", "", 0, "")

magic_tuple(codegen) == Tup(<<Atom(codegen)>>)

CodeBytes == <<Atom("co_code")>>

\* super()._index_key(sig, codegen)
BaseIndexKey(s, codegen, f) ==
  LET cvarbytes == IF f.closure.present THEN dumps(Tup(f.closure.cells)) ELSE <<>>
  IN  <<Tup(s), magic_tuple(codegen), Tup(<<hasher(CodeBytes), hasher(cvarbytes)>>)>>

----------------------------------------------------------------------------
(* ZFunctionCache._index_key *)

NoCvars == Tup(<<>>)

\* the signature step, were the whole base key appended: (sig,) + key
sig_step_whole(k0, s) ==
  IF any_first_class_function(s)
    THEN <<map_only("types.Dispatcher", s)>> \o k0
    ELSE k0

\* lines 77-79: the signature step
sig_step(k0, s) ==
  IF any_first_class_function(s)
    THEN <<map_only("types.Dispatcher", s)>> \o Tail(k0)
    ELSE k0

\* lines 81-85: the local cvars, which line 86 serializes when it holds a reference
closure_cvars(f) ==
  IF ~f.closure.present THEN NoCvars
  ELSE IF any_first_class_function(f.closure.cells)
    THEN map_only("dispatcher.Dispatcher", f.closure.cells)
    ELSE Tup(f.closure.cells)

\* lines 86-88: the closure step
closure_step(k, f) ==
  IF f.closure.present /\ any_first_class_function(f.closure.cells)
    THEN SubSeq(k, 1, Len(k) - 1)
           \o <<k[Len(k)].kids[1], hasher(dumps(closure_cvars(f)))>>
    ELSE k

index_key(s, codegen, f) ==
  LET k0 == BaseIndexKey(s, codegen, f)
      k1 == sig_step(k0, s)
  IN  IF Raised(k1[1])
        THEN [raised |-> TRUE, key |-> <<>>, cvars |-> NoCvars]
        ELSE IF Raised(closure_cvars(f))
          THEN [raised |-> TRUE, key |-> <<>>, cvars |-> NoCvars]
          ELSE [raised |-> FALSE, key |-> closure_step(k1, f), cvars |-> closure_cvars(f)]

----------------------------------------------------------------------------
(* Inputs *)

MaxSigNodes == 3

MaxCellNodes == 1

Kinds == {"tuple", "list"}

SigLeaves ==
  { Atom("m"), Atom("f"), Lst(<<>>),
    TypeDispatcher(1, "m", "f", "key"),
    DispatcherObj(1, "m", "f", "py_func"),
    TypeDispatcher(1, "m", "f", "none") }

CellLeaves ==
  { Atom("m"),
    DispatcherObj(1, "m", "f", "py_func"),
    TypeDispatcher(1, "m", "f", "key"),
    DispatcherObj(1, "m", "f", "key_without_py_func") }

\* Trees(L, n): the values with exactly n nodes over the leaves L;
\* Forests(L, n): the sequences of values with n nodes in all.
RECURSIVE Trees(_, _)
RECURSIVE Forests(_, _)
Trees(L, n) ==
  (IF n = 1 THEN L ELSE {})
    \cup (IF n >= 2
            THEN { Mk(k, f, "", "", 0, "") : k \in Kinds, f \in Forests(L, n - 1) }
            ELSE {})

Forests(L, n) ==
  IF n = 0 THEN { <<>> }
  ELSE UNION { { <<t>> \o f : t \in Trees(L, m), f \in Forests(L, n - m) } : m \in 1..n }

Signatures == UNION { Forests(SigLeaves, n) : n \in 0..MaxSigNodes }

Closures ==
  { [present |-> FALSE, cells |-> <<>>] }
    \cup { [present |-> TRUE, cells |-> c] :
             c \in UNION { Forests(CellLeaves, n) : n \in 0..MaxCellNodes } }

Codegen == "cpu"

----------------------------------------------------------------------------
(* The state machine *)

Init ==
  /\ cache = "NullCache"
  /\ py_func \in { [closure |-> c] : c \in Closures }
  /\ sig = <<>>
  /\ key = <<>>
  /\ cvars = NoCvars
  /\ outcome = "none"

\* ZDispatcher.enable_caching
enable_caching ==
  /\ cache' = "ZFunctionCache"
  /\ UNCHANGED <<py_func, sig, key, cvars, outcome>>

\* one call of the installed cache's _index_key
IndexKey ==
  /\ cache = "ZFunctionCache"
  /\ outcome = "none"
  /\ \E s \in Signatures :
       LET r == index_key(s, Codegen, py_func)
       IN  /\ sig' = s
           /\ key' = r.key
           /\ cvars' = r.cvars
           /\ outcome' = IF r.raised THEN "raised" ELSE "returned"
  /\ UNCHANGED <<cache, py_func>>

Next == enable_caching \/ IndexKey

Spec == Init /\ [][Next]_vars

----------------------------------------------------------------------------
(* Vocabulary of the properties *)

\* a compiled-function reference: a function type descriptor or a compiled function
IsRef(obj) == obj.tag \in {"types.Dispatcher", "dispatcher.Dispatcher"}

WellFormed(obj) == obj.intro \in {"py_func", "key"}

\* the stable function identity (module, qualified name) of a reference
Identity(obj) == Tup(<<Atom(obj.mod), Atom(obj.qn)>>)

RECURSIVE ContainsRef(_)
ContainsRef(obj) ==
  \/ IsRef(obj)
  \/ \E i \in 1..Len(obj.kids) : ContainsRef(obj.kids[i])

\* the positions of a sequence of values, at every nesting depth
RECURSIVE Paths(_)
Paths(kids) ==
  UNION { { <<i>> }
            \cup (IF IsContainer(kids[i])
                    THEN { <<i>> \o p : p \in Paths(kids[i].kids) }
                    ELSE {}) : i \in 1..Len(kids) }

RECURSIVE At(_, _)
At(kids, p) ==
  IF Len(p) = 1 THEN kids[p[1]] ELSE At(kids[p[1]].kids, Tail(p))

\* the one-hole context kids[p := v]
RECURSIVE Fill(_, _, _)
Fill(kids, p, v) ==
  [i \in 1..Len(kids) |->
     IF i # p[1] THEN kids[i]
     ELSE IF Len(p) = 1 THEN v
     ELSE [kids[i] EXCEPT !.kids = Fill(kids[i].kids, Tail(p), v)]]

Insts == {1, 2}

QualNames == {"f", "g"}

\* the references a hole is filled with
Refs ==
  { TypeDispatcher(i, "m", q, "key") : i \in Insts, q \in QualNames }
    \cup { DispatcherObj(i, "m", q, "py_func") : i \in Insts, q \in QualNames }

Last(k) == k[Len(k)]

K0 == BaseIndexKey(sig, Codegen, py_func)

Cells == py_func.closure.cells

WithCells(c) == [closure |-> [present |-> TRUE, cells |-> c]]

\* a value up to the compiled instance and the kind of its references
RECURSIVE Canon(_)
Canon(obj) ==
  IF IsRef(obj) THEN Mk("ref", <<>>, obj.mod, obj.qn, 0, "")
  ELSE [obj EXCEPT !.kids = [i \in 1..Len(obj.kids) |-> Canon(obj.kids[i])]]

----------------------------------------------------------------------------
(* Properties *)

\* C1 (baseline equivalence): when no compiled-function reference occurs at
\* any depth of the signature or of the closure (absent, empty or not), the
\* call returns exactly the base key.
C1_BaselineEquivalence ==
  (outcome # "none" /\ ~ContainsRef(Tup(sig)) /\ ~ContainsRef(Tup(Cells)))
    => (outcome = "returned" /\ key = K0)

C1_Witness ==
  /\ outcome = "returned"
  /\ ~ContainsRef(Tup(sig)) /\ ~ContainsRef(Tup(Cells))
  /\ \E p \in Paths(sig) : At(sig, p).tag = "list" /\ Len(p) = 2
  /\ Cells # <<>>

\* C2 (identity substitution determinism): filling a hole of the signature
\* with another compiled instance of the same (module, qualified name)
\* returns the same key. The two references compared are of one kind (two
\* type descriptors, or two compiled functions).
C2_SubstitutionDeterminism ==
  outcome = "returned" =>
    \A p \in Paths(sig) :
      (IsRef(At(sig, p)) /\ WellFormed(At(sig, p))) =>
        \A b \in Refs :
          ( /\ b.tag = At(sig, p).tag
            /\ Identity(b) = Identity(At(sig, p))
            /\ b.inst # At(sig, p).inst ) =>
            LET r == index_key(Fill(sig, p, b), Codegen, py_func)
            IN  ~r.raised /\ r.key = key

\* C3 (discrimination): filling a hole of the signature with a reference of
\* another (module, qualified name) returns a different key.
C3_Discrimination ==
  outcome = "returned" =>
    \A p \in Paths(sig) :
      IsRef(At(sig, p)) =>
        \A b \in Refs :
          Identity(b) # Identity(At(sig, p)) =>
            LET r == index_key(Fill(sig, p, b), Codegen, py_func)
            IN  ~r.raised /\ r.key # key

C3_Witness ==
  /\ outcome = "returned"
  /\ \E p \in Paths(sig) :
       /\ Len(p) = 2
       /\ At(sig, p).tag = "types.Dispatcher"
       /\ index_key(Fill(sig, p, TypeDispatcher(1, "m", "g", "key")), Codegen, py_func).key # key

\* C4 (closure content sensitivity): with a closure that holds a reference,
\* replacing a captured reference by another instance of the same (module,
\* qualified name) keeps the trailing key element, and replacing it by a
\* reference of another (module, qualified name) changes it. The two
\* references compared are of one kind.
C4_ClosureSensitivity ==
  (outcome = "returned" /\ py_func.closure.present) =>
    \A p \in Paths(Cells) :
      IsRef(At(Cells, p)) =>
        \A b \in { x \in Refs : x.tag = At(Cells, p).tag } :
          LET r == index_key(sig, Codegen, WithCells(Fill(Cells, p, b)))
          IN  /\ (Identity(b) = Identity(At(Cells, p)) /\ b.inst # At(Cells, p).inst)
                   => (~r.raised /\ Last(r.key) = Last(key))
              /\ Identity(b) # Identity(At(Cells, p))
                   => (~r.raised /\ Last(r.key) # Last(key))

\* C5 (closure key shape): when the closure holds a reference, the key is as
\* long as the base key, its elements before the last are those the
\* signature step left, and its last element is the pair (first component of
\* the base key's last element, digest of the serialized closure contents).
C5_ClosureKeyShape ==
  (outcome = "returned" /\ py_func.closure.present /\ ContainsRef(Tup(Cells))) =>
    /\ Len(key) = Len(K0)
    /\ \A i \in 1..(Len(K0) - 1) : key[i] = sig_step(K0, sig)[i]
    /\ Last(key) = Tup(<<Last(K0).kids[1], hasher(dumps(cvars))>>)

\* C6 (nesting): a reference nested in containers of the signature is found
\* by the scan and replaced by the pair the same reference yields as a
\* top-level element, and the elements that hold no reference stay as they were.
C6_Nesting ==
  outcome = "returned" =>
    /\ \A p \in Paths(sig) :
         (Len(p) >= 2 /\ IsRef(At(sig, p))) =>
           /\ any_first_class_function(sig)
           /\ At(key[1].kids, p) = Identity(At(sig, p))
           /\ At(key[1].kids, p) = index_key(<<At(sig, p)>>, Codegen, py_func).key[1].kids[1]
    /\ ContainsRef(Tup(sig)) =>
         \A p \in Paths(sig) :
           ~ContainsRef(At(sig, p)) => At(key[1].kids, p) = At(sig, p)

\* C7 (a malformed descriptor fails loudly): a type descriptor of the
\* signature, or a compiled function of the closure, that exposes neither
\* py_func nor a key() leading to one makes the call raise and return no key.
C7_MalformedRaises ==
  ( /\ outcome # "none"
    /\ \/ \E p \in Paths(sig) :
            At(sig, p).tag = "types.Dispatcher" /\ ~WellFormed(At(sig, p))
       \/ \E p \in Paths(Cells) :
            At(Cells, p).tag = "dispatcher.Dispatcher" /\ ~WellFormed(At(Cells, p)) )
    => (outcome = "raised" /\ key = <<>>)

C7_Witness ==
  /\ outcome = "raised"
  /\ \E p \in Paths(sig) : At(sig, p).tag = "types.Dispatcher" /\ WellFormed(At(sig, p))
  /\ \A p \in Paths(sig) : IsRef(At(sig, p)) => WellFormed(At(sig, p))
  /\ \E p \in Paths(Cells) :
       At(Cells, p).tag = "dispatcher.Dispatcher" /\ ~WellFormed(At(Cells, p))

\* C8 (the signature rewrite keeps the base tail): with a reference in the
\* signature and none in the closure, the key is the rewritten signature
\* followed by the elements of the base key after its first, unchanged.
C8_SigRewriteKeepsTail ==
  (outcome = "returned" /\ ContainsRef(Tup(sig)) /\ ~ContainsRef(Tup(Cells))) =>
    /\ Len(key) = Len(K0)
    /\ key[1] = map_only("types.Dispatcher", sig)
    /\ \A i \in 2..Len(K0) : key[i] = K0[i]

C8_Witness ==
  /\ outcome = "returned"
  /\ ContainsRef(Tup(sig))
  /\ Cells # <<>> /\ ~ContainsRef(Tup(Cells))
  /\ key[1] # Tup(sig)
  /\ Last(key) = Last(K0)

\* C9 (complete substitution): when the scan finds a reference in the
\* signature (in the closure contents), the rewritten signature (the closure
\* contents that are serialized) holds nothing the scan still detects.
C9_CompleteSubstitution ==
  outcome = "returned" =>
    /\ any_first_class_function(sig) => ~any_first_class_function(key[1].kids)
    /\ any_first_class_function(Cells) => ~any_first_class_function(cvars.kids)

\* C10 (no structural false collisions): for the same codegen and closure,
\* two signatures get equal keys only if they are identical up to replacing
\* references by references of the same (module, qualified name).
C10_NoStructuralCollision ==
  outcome = "returned" =>
    \A s \in Signatures :
      LET r == index_key(s, Codegen, py_func)
      IN  (~r.raised /\ r.key = key) => Canon(Tup(s)) = Canon(Tup(sig))

====
